---- MODULE Spec2Model ----
(***************************************************************************)
(* Blink2Speech: eye-blink Morse translator.                               *)
(*                                                                         *)
(* Times are integers in units of 10 ms.  Text (output_text, phrases) is a *)
(* sequence of one-character strings; Morse buffers are strings over       *)
(* "." and "-".  Optional[float] values are <<>> (None) or <<x>>.          *)
(***************************************************************************)
EXTENDS Integers, Sequences, FiniteSets, TLC

VARIABLES
    state,      \* MorseDecoder.state : DecoderState
    config,     \* MorseDecoder.config.thresholds
    profile,    \* CalibrationManager.profile : CalibrationProfile (thresholds, samples)
    storage,    \* the thresholds file at storage_path: None while absent, else its text
    detector,   \* BlinkDetector: prev_ear, eye_closed, blink_start, last_blink_end
    app,        \* MainApp: calibrating, blink_count, last_blink_time
    cycles,     \* the number of _update_loop runs so far
    now,        \* the monotonic clock behind every timestamp argument
    last_call,  \* the call just made: its name, arguments, the state before it, its result
    twin        \* a second MorseDecoder (thresholds, state), given the calls of the first

vars == <<state, config, profile, storage, detector, app, cycles, now, last_call, twin>>

---------------------------------------------------------------------------
(* Optional values *)

None == <<>>

Some(x) == <<x>>

\* Python's `o or t` for an Optional[float] o: None and 0.0 are both falsy.
OrElse(o, t) == IF o = None \/ o[1] = 0 THEN t ELSE o[1]

---------------------------------------------------------------------------
(* utils.py: the lexicon and the quick commands *)

MORSE_CODE_DICT ==
    ".-" :> "A" @@ "-..." :> "B" @@ "-.-." :> "C" @@ "-.." :> "D" @@
    "." :> "E" @@ "..-." :> "F" @@ "--." :> "G" @@ "...." :> "H" @@
    ".." :> "I" @@ ".---" :> "J" @@ "-.-" :> "K" @@ ".-.." :> "L" @@
    "--" :> "M" @@ "-." :> "N" @@ "---" :> "O" @@ ".--." :> "P" @@
    "--.-" :> "Q" @@ ".-." :> "R" @@ "..." :> "S" @@ "-" :> "T" @@
    "..-" :> "U" @@ "...-" :> "V" @@ ".--" :> "W" @@ "-..-" :> "X" @@
    "-.--" :> "Y" @@ "--.." :> "Z" @@
    "-----" :> "0" @@ ".----" :> "1" @@ "..---" :> "2" @@ "...--" :> "3" @@
    "....-" :> "4" @@ "....." :> "5" @@ "-...." :> "6" @@ "--..." :> "7" @@
    "---.." :> "8" @@ "----." :> "9" @@
    ".-.-.-" :> "." @@ "--..--" :> "," @@ "..--.." :> "?" @@
    ".----." :> "'" @@ "-.-.--" :> "!" @@ "-..-." :> "/" @@
    "-.--." :> "(" @@ "-.--.-" :> ")" @@ ".-..-." :> "\"" @@
    "---..." :> ":" @@ "-.-.-." :> ";" @@ "-...-" :> "=" @@
    ".-.-." :> "+" @@ "-....-" :> "-" @@ "..--.-" :> "_" @@
    ".--.-." :> "@"

QUICK_COMMANDS ==
    "...---..." :> <<"H","E","L","P","!"," ","E","M","E","R","G","E","N","C","Y","!">> @@
    "..--." :> <<"I"," ","n","e","e","d"," ","w","a","t","e","r">> @@
    "--..--" :> <<"C","a","l","l"," ","t","h","e"," ","n","u","r","s","e">> @@
    ".-.-" :> <<"I"," ","a","m"," ","i","n"," ","p","a","i","n">> @@
    "..--" :> <<"T","h","a","n","k"," ","y","o","u">> @@
    "---...---" :> <<"I"," ","n","e","e","d"," ","m","e","d","i","c","a","t","i","o","n">>

\* dict.get(key, default)
DictGet(dict, key, default) == IF key \in DOMAIN dict THEN dict[key] ELSE default

\* str.strip() on a text whose only whitespace is " "
RECURSIVE LStrip(_)
LStrip(text) ==
    IF text # <<>> /\ Head(text) = " " THEN LStrip(Tail(text)) ELSE text

RECURSIVE RStrip(_)
RStrip(text) ==
    IF text # <<>> /\ text[Len(text)] = " "
    THEN RStrip(SubSeq(text, 1, Len(text) - 1))
    ELSE text

Strip(text) == RStrip(LStrip(text))

\* str.endswith(" ")
EndsWithSpace(text) == text # <<>> /\ text[Len(text)] = " "

---------------------------------------------------------------------------
(* morse_decoder.py *)

IDLE == "idle"

BUILDING_SYMBOL == "building"

CONFIRMING_LETTER == "confirming"

CONFIRMING_WORD == "confirming_word"

DecoderMode == {IDLE, BUILDING_SYMBOL, CONFIRMING_LETTER, CONFIRMING_WORD}

DecoderState ==
    [ current_letter     |-> "",
      output_text        |-> <<>>,
      last_symbol_time   |-> None,
      last_letter_time   |-> None,
      mode               |-> IDLE,
      confirmation_start |-> None ]

symbol_confirmation_time == 150

letter_finalize_time == 100

word_space_time == 200

_snapshot(st, event_type) ==
    [ event  |-> event_type,
      buffer |-> st.current_letter,
      output |-> Strip(st.output_text),
      mode   |-> st.mode ]

\* A reset that forgets to clear the translated text.
reset_keeps_output(st) == [ DecoderState EXCEPT !.output_text = st.output_text ]

reset(st) == DecoderState

\* A register_symbol that leaves a pending confirmation clock running.
register_symbol_keeps_clock(st, symbol, timestamp) ==
    [ st EXCEPT !.current_letter   = @ \o symbol,
                !.last_symbol_time = Some(timestamp),
                !.mode             = BUILDING_SYMBOL ]

\* A register_symbol that leaves a confirming mode and its clock in place.
register_symbol_keeps_mode(st, symbol, timestamp) ==
    [ st EXCEPT !.current_letter   = @ \o symbol,
                !.last_symbol_time = Some(timestamp),
                !.mode             = IF @ = IDLE THEN BUILDING_SYMBOL ELSE @ ]

register_symbol(st, symbol, timestamp) ==
    [ st EXCEPT !.current_letter     = @ \o symbol,
                !.last_symbol_time   = Some(timestamp),
                !.mode               = BUILDING_SYMBOL,
                !.confirmation_start = None ]

\* A finalization that consults the lexicon before the quick commands.
_finalize_letter_lexicon_first(st) ==
    IF st.current_letter = ""
    THEN st
    ELSE LET morse == st.current_letter
             appended ==
                 IF morse \in DOMAIN MORSE_CODE_DICT
                 THEN Append(st.output_text, MORSE_CODE_DICT[morse])
                 ELSE IF morse \in DOMAIN QUICK_COMMANDS
                 THEN st.output_text \o QUICK_COMMANDS[morse] \o <<" ">>
                 ELSE Append(st.output_text, "?")
         IN  [ st EXCEPT !.output_text      = appended,
                         !.current_letter   = "",
                         !.last_letter_time = None ]

\* A finalization that drops a buffer the lexicon does not know.
_finalize_letter_drops_unknown(st) ==
    IF st.current_letter = ""
    THEN st
    ELSE LET morse == st.current_letter
             appended ==
                 IF morse \in DOMAIN QUICK_COMMANDS
                 THEN st.output_text \o QUICK_COMMANDS[morse] \o <<" ">>
                 ELSE IF morse \in DOMAIN MORSE_CODE_DICT
                 THEN Append(st.output_text, MORSE_CODE_DICT[morse])
                 ELSE st.output_text
         IN  [ st EXCEPT !.output_text      = appended,
                         !.current_letter   = "",
                         !.last_letter_time = None ]

\* A finalization that sets a quick-command phrase off by a space on both sides.
_finalize_letter_spaced_phrase(st) ==
    IF st.current_letter = ""
    THEN st
    ELSE LET morse == st.current_letter
             appended ==
                 IF morse \in DOMAIN QUICK_COMMANDS
                 THEN st.output_text \o <<" ">> \o QUICK_COMMANDS[morse] \o <<" ">>
                 ELSE Append(st.output_text, DictGet(MORSE_CODE_DICT, morse, "?"))
         IN  [ st EXCEPT !.output_text      = appended,
                         !.current_letter   = "",
                         !.last_letter_time = None ]

_finalize_letter(st) ==
    IF st.current_letter = ""
    THEN st
    ELSE LET morse == st.current_letter
             appended ==
                 IF morse \in DOMAIN QUICK_COMMANDS
                 THEN st.output_text \o QUICK_COMMANDS[morse] \o <<" ">>
                 ELSE Append(st.output_text, DictGet(MORSE_CODE_DICT, morse, "?"))
         IN  [ st EXCEPT !.output_text      = appended,
                         !.current_letter   = "",
                         !.last_letter_time = None ]

\* A BUILDING_SYMBOL tick that finalizes the letter at once when it comes late enough.
handle_gap_building_finalizes(st, timestamp) ==
    LET gap == timestamp - st.last_symbol_time[1]
    IN  IF gap >= symbol_confirmation_time + letter_finalize_time
        THEN [ _finalize_letter(st) EXCEPT
                   !.mode = CONFIRMING_WORD,
                   !.confirmation_start = Some(timestamp) ]
        ELSE IF gap >= symbol_confirmation_time
        THEN [ st EXCEPT !.mode = CONFIRMING_LETTER,
                         !.confirmation_start = Some(timestamp) ]
        ELSE st

\* A BUILDING_SYMBOL tick that waits for more than symbol_confirmation_time.
handle_gap_building_strict(st, timestamp) ==
    LET gap == timestamp - st.last_symbol_time[1]
    IN  IF gap > symbol_confirmation_time
        THEN [ st EXCEPT !.mode = CONFIRMING_LETTER,
                         !.confirmation_start = Some(timestamp) ]
        ELSE st

\* A BUILDING_SYMBOL tick that changes the mode and starts no clock.
handle_gap_building_no_clock(st, timestamp) ==
    LET gap == timestamp - st.last_symbol_time[1]
    IN  IF gap >= symbol_confirmation_time
        THEN [ st EXCEPT !.mode = CONFIRMING_LETTER ]
        ELSE st

\* handle_gap, mode BUILDING_SYMBOL
handle_gap_building(st, timestamp) ==
    LET gap == timestamp - st.last_symbol_time[1]
    IN  IF gap >= symbol_confirmation_time
        THEN [ st EXCEPT !.mode = CONFIRMING_LETTER,
                         !.confirmation_start = Some(timestamp) ]
        ELSE st

\* A CONFIRMING_LETTER tick that measures its 1.0 s from the last symbol.
handle_gap_confirming_letter_from_symbol(st, timestamp) ==
    LET confirmation_duration == timestamp - st.last_symbol_time[1]
    IN  IF confirmation_duration >= letter_finalize_time
        THEN [ _finalize_letter(st) EXCEPT
                   !.mode = CONFIRMING_WORD,
                   !.confirmation_start = Some(timestamp) ]
        ELSE st

\* handle_gap, mode CONFIRMING_LETTER
handle_gap_confirming_letter(st, timestamp) ==
    LET confirmation_duration == timestamp - OrElse(st.confirmation_start, timestamp)
    IN  IF confirmation_duration >= letter_finalize_time
        THEN [ _finalize_letter(st) EXCEPT
                   !.mode = CONFIRMING_WORD,
                   !.confirmation_start = Some(timestamp) ]
        ELSE st

\* A CONFIRMING_WORD tick that appends the space without looking at the output's end.
handle_gap_confirming_word_always_space(st, timestamp) ==
    LET confirmation_duration == timestamp - OrElse(st.confirmation_start, timestamp)
    IN  IF confirmation_duration >= word_space_time
        THEN [ st EXCEPT !.output_text = Append(@, " "),
                         !.mode = IDLE,
                         !.last_symbol_time = None ]
        ELSE st

\* A CONFIRMING_WORD tick that ends the word but leaves the mode as it is.
handle_gap_confirming_word_keeps_mode(st, timestamp) ==
    LET confirmation_duration == timestamp - OrElse(st.confirmation_start, timestamp)
    IN  IF confirmation_duration >= word_space_time
        THEN [ st EXCEPT
                   !.output_text =
                       IF @ # <<>> /\ ~EndsWithSpace(@) THEN Append(@, " ") ELSE @,
                   !.last_symbol_time = None ]
        ELSE st

\* A CONFIRMING_WORD tick that returns to IDLE with the last-symbol time still set.
handle_gap_confirming_word_keeps_symbol_time(st, timestamp) ==
    LET confirmation_duration == timestamp - OrElse(st.confirmation_start, timestamp)
    IN  IF confirmation_duration >= word_space_time
        THEN [ st EXCEPT
                   !.output_text =
                       IF @ # <<>> /\ ~EndsWithSpace(@) THEN Append(@, " ") ELSE @,
                   !.mode = IDLE ]
        ELSE st

\* handle_gap, mode CONFIRMING_WORD
handle_gap_confirming_word(st, timestamp) ==
    LET confirmation_duration == timestamp - OrElse(st.confirmation_start, timestamp)
    IN  IF confirmation_duration >= word_space_time
        THEN [ st EXCEPT
                   !.output_text =
                       IF @ # <<>> /\ ~EndsWithSpace(@) THEN Append(@, " ") ELSE @,
                   !.mode = IDLE,
                   !.last_symbol_time = None ]
        ELSE st

handle_gap(st, timestamp) ==
    IF st.last_symbol_time = None
    THEN st
    ELSE CASE st.mode = BUILDING_SYMBOL   -> handle_gap_building(st, timestamp)
           [] st.mode = CONFIRMING_LETTER -> handle_gap_confirming_letter(st, timestamp)
           [] st.mode = CONFIRMING_WORD   -> handle_gap_confirming_word(st, timestamp)
           [] OTHER                       -> st

\* The value handle_gap returns: a snapshot on a letter or word boundary, else None.
handle_gap_result(st, timestamp) ==
    LET after == handle_gap(st, timestamp)
    IN  IF after.mode = st.mode THEN None
        ELSE IF after.mode = CONFIRMING_WORD THEN Some(_snapshot(after, "letter_finalized"))
        ELSE IF after.mode = IDLE THEN Some(_snapshot(after, "word_gap"))
        ELSE None

get_translation(st) == Strip(st.output_text)

\* MorseDecoder.__init__ with MorseDecoderConfig(thresholds=thresholds).  The config's
\* symbol_confirmation_time keeps its default: nothing assigns it.
MorseDecoder(thresholds) == [ config |-> thresholds, state |-> DecoderState ]

\* An update_thresholds that starts the decoder afresh under the new thresholds.
update_thresholds_restarts(decoder, thresholds) == MorseDecoder(thresholds)

\* MorseDecoder.update_thresholds
update_thresholds(decoder, thresholds) == [ decoder EXCEPT !.config = thresholds ]

get_current_buffer_preview(st) ==
    IF st.current_letter = "" THEN "" ELSE DictGet(MORSE_CODE_DICT, st.current_letter, "?")

---------------------------------------------------------------------------
(* Exact arithmetic for the float computations: a number is <<numerator, denominator>> *)
(* in lowest terms with a positive denominator.                                        *)

RECURSIVE GCD(_, _)
GCD(a, b) == IF b = 0 THEN a ELSE GCD(b, a % b)

Abs(n) == IF n < 0 THEN -n ELSE n

Rat(n, d) == LET g == GCD(Abs(n), d) IN <<n \div g, d \div g>>

Num(n) == <<n, 1>>

RAdd(a, b) == Rat(a[1] * b[2] + b[1] * a[2], a[2] * b[2])

RSub(a, b) == Rat(a[1] * b[2] - b[1] * a[2], a[2] * b[2])

RMul(a, b) == Rat(a[1] * b[1], a[2] * b[2])

RLess(a, b) == a[1] * b[2] < b[1] * a[2]

\* max(a, b, ...): the first of the largest arguments
RMax(a, b) == IF RLess(a, b) THEN b ELSE a

RECURSIVE SumSeq(_)
SumSeq(seq) == IF seq = <<>> THEN 0 ELSE Head(seq) + SumSeq(Tail(seq))

RECURSIVE MinSeq(_)
MinSeq(seq) ==
    IF Len(seq) = 1 THEN seq[1]
    ELSE LET m == MinSeq(Tail(seq)) IN IF Head(seq) <= m THEN Head(seq) ELSE m

RECURSIVE MaxSeq(_)
MaxSeq(seq) ==
    IF Len(seq) = 1 THEN seq[1]
    ELSE LET m == MaxSeq(Tail(seq)) IN IF Head(seq) >= m THEN Head(seq) ELSE m

\* statistics.mean
mean(durations) == Rat(SumSeq(durations), Len(durations))

\* n * n * (sum of squared deviations from the mean), n = Len(durations)
RECURSIVE ScaledSquares(_, _, _)
ScaledSquares(seq, n, total) ==
    IF seq = <<>> THEN 0
    ELSE (n * Head(seq) - total) * (n * Head(seq) - total)
         + ScaledSquares(Tail(seq), n, total)

\* abs(d - avg) <= 2 * std, with avg = mean(durations) and std = stdev(durations), the
\* sample standard deviation: both sides squared and multiplied by n * n * (n - 1).
WithinTwoStd(d, durations) ==
    LET n     == Len(durations)
        total == SumSeq(durations)
    IN  (n - 1) * (n * d - total) * (n * d - total)
            <= 4 * ScaledSquares(durations, n, total)

---------------------------------------------------------------------------
(* utils.py: Thresholds and its persistence *)

\* Thresholds(): the dataclass defaults, 0.30 0.50 0.5 1.5 3.0 seconds
Thresholds ==
    [ short_blink_max |-> Num(30),
      long_blink_min  |-> Num(50),
      symbol_gap      |-> Num(50),
      letter_gap      |-> Num(150),
      word_gap        |-> Num(300) ]

to_dict(thresholds) ==
    "short_blink_max" :> thresholds.short_blink_max @@
    "long_blink_min" :> thresholds.long_blink_min @@
    "symbol_gap" :> thresholds.symbol_gap @@
    "letter_gap" :> thresholds.letter_gap @@
    "word_gap" :> thresholds.word_gap

from_dict(payload) ==
    [ short_blink_max |-> DictGet(payload, "short_blink_max", Num(30)),
      long_blink_min  |-> DictGet(payload, "long_blink_min", Num(50)),
      symbol_gap      |-> DictGet(payload, "symbol_gap", Num(50)),
      letter_gap      |-> DictGet(payload, "letter_gap", Num(150)),
      word_gap        |-> DictGet(payload, "word_gap", Num(300)) ]

\* The text of a file is described by whether it is valid JSON and, if so, by the value
\* it denotes.  json.dump writes valid text that denotes the object dumped.
json_dump(obj) == [ valid |-> TRUE, value |-> obj ]

\* json.load raises JSONDecodeError on text that is not valid JSON
json_load_raises(text) == ~text.valid

json_load(text) == text.value

\* load_thresholds lets the error of json.load through: it has no try/except.
load_thresholds_raises(file) == file # None /\ json_load_raises(file[1])

\* load_thresholds on an absent file or on a file holding a JSON object
load_thresholds(file) == IF file = None THEN Thresholds ELSE from_dict(json_load(file[1]))

\* the file's content after save_thresholds
save_thresholds(thresholds) == Some(json_dump(to_dict(thresholds)))

---------------------------------------------------------------------------
(* calibration.py *)

MIN_SAMPLES == 8

OUTLIER_MIN_SAMPLES == 5

MIN_SAMPLE_DURATION == 4

MAX_SAMPLE_DURATION == 250

CalibrationProfile(thresholds) == [ thresholds |-> thresholds, samples |-> <<>> ]

add_sample(p, duration) == [ p EXCEPT !.samples = Append(@, duration) ]

is_ready(p, min_samples) == Len(p.samples) >= min_samples

\* An outlier filter that keeps everything within three standard deviations.
remove_outliers_three_std(durations) ==
    IF Len(durations) >= OUTLIER_MIN_SAMPLES
    THEN LET n     == Len(durations)
             total == SumSeq(durations)
             Keep(d) == (n - 1) * (n * d - total) * (n * d - total)
                            <= 9 * ScaledSquares(durations, n, total)
         IN  SelectSeq(durations, Keep)
    ELSE durations

\* compute_thresholds, the outlier filter
remove_outliers(durations) ==
    IF Len(durations) >= OUTLIER_MIN_SAMPLES
    THEN LET Keep(d) == WithinTwoStd(d, durations) IN SelectSeq(durations, Keep)
    ELSE durations

\* A short threshold taken from the mean, as 65% of it.
short_threshold_of_mean(durations) ==
    RMax(Num(8), RMul(mean(durations), Rat(65, 100)))

\* compute_thresholds, short_threshold of the filtered durations
short_threshold(durations) ==
    RMax(Num(8), RMul(Num(MinSeq(durations)), Rat(8, 10)))

\* A long threshold that forgets the separation from the short one.
long_threshold_no_separation(durations, short) ==
    RMax(RMul(mean(durations), Rat(12, 10)), RMul(Num(MaxSeq(durations)), Rat(8, 10)))

\* A long threshold kept only 0.1 s above the short one.
long_threshold_half_separation(durations, short) ==
    LET first == RMax(RMax(RMul(mean(durations), Rat(12, 10)),
                           RMul(Num(MaxSeq(durations)), Rat(8, 10))),
                      RAdd(short, Num(10)))
    IN  IF RLess(RSub(first, short), Num(10)) THEN RAdd(short, Num(10)) ELSE first

\* compute_thresholds, long_threshold of the filtered durations
long_threshold(durations, short) ==
    LET first == RMax(RMax(RMul(mean(durations), Rat(12, 10)),
                           RMul(Num(MaxSeq(durations)), Rat(8, 10))),
                      RAdd(short, Num(20)))
    IN  IF RLess(RSub(first, short), Num(20)) THEN RAdd(short, Num(20)) ELSE first

\* compute_thresholds, from the filtered durations on
thresholds_from(durations) ==
    LET avg        == mean(durations)
        short      == short_threshold(durations)
        symbol_gap == RMax(Num(40), RMul(avg, Rat(15, 10)))
        letter_gap == RMul(symbol_gap, Rat(25, 10))
    IN  [ short_blink_max |-> short,
          long_blink_min  |-> long_threshold(durations, short),
          symbol_gap      |-> symbol_gap,
          letter_gap      |-> letter_gap,
          word_gap        |-> RMul(letter_gap, Num(2)) ]

\* The Thresholds compute_thresholds returns and stores in the profile.
compute_thresholds(p) ==
    IF p.samples = <<>>
    THEN p.thresholds
    ELSE LET durations == remove_outliers(p.samples)
         IN  IF durations = <<>> THEN p.thresholds ELSE thresholds_from(durations)

\* An acceptance test with no upper limit.
admissible_no_maximum(duration) == MIN_SAMPLE_DURATION <= duration

\* CalibrationManager.record_blink, the range of durations it accepts as samples
admissible(duration) ==
    MIN_SAMPLE_DURATION <= duration /\ duration <= MAX_SAMPLE_DURATION

\* A record_blink that recomputes the thresholds from the first sample on.
record_blink_from_first_sample(p, duration) ==
    LET added == IF admissible(duration) THEN add_sample(p, duration) ELSE p
    IN  [ added EXCEPT !.thresholds = compute_thresholds(added) ]

\* CalibrationManager.record_blink: the profile after the call
record_blink(p, duration) ==
    LET added == IF admissible(duration) THEN add_sample(p, duration) ELSE p
    IN  IF is_ready(added, MIN_SAMPLES)
        THEN [ added EXCEPT !.thresholds = compute_thresholds(added) ]
        ELSE added

\* A record_blink that saves the thresholds it held before recomputing.
record_blink_storage_stale(p, duration, file) ==
    LET after == record_blink(p, duration)
    IN  IF is_ready(after, MIN_SAMPLES) THEN save_thresholds(p.thresholds) ELSE file

\* CalibrationManager.record_blink: the thresholds file after the call
record_blink_storage(p, duration, file) ==
    LET after == record_blink(p, duration)
    IN  IF is_ready(after, MIN_SAMPLES) THEN save_thresholds(after.thresholds) ELSE file

get_thresholds(p) == p.thresholds

\* What is left where construction raised: no object, the exception on its way up.
Raised(exception) == [ raised |-> exception ]

\* CalibrationManager.__init__: the profile of the manager constructed
CalibrationManager(file) ==
    IF load_thresholds_raises(file)
    THEN Raised("JSONDecodeError")
    ELSE CalibrationProfile(load_thresholds(file))

\* CalibrationManager.reset
reset_samples(p) == [ p EXCEPT !.samples = <<>> ]

---------------------------------------------------------------------------
(* blink_detector.py.  Eye aspect ratios are exact fractions. *)

eye_ar_threshold == Rat(18, 100)

eye_ar_smooth_factor == Rat(7, 10)

min_blink_duration == 3

max_blink_duration == 300

debounce_time == 8

\* BlinkDetector.__init__
BlinkDetector ==
    [ prev_ear       |-> None,
      eye_closed     |-> FALSE,
      blink_start    |-> None,
      last_blink_end |-> None ]

BlinkEvent(duration, start_time, end_time) ==
    [ is_blink   |-> TRUE,
      duration   |-> duration,
      start_time |-> start_time,
      end_time   |-> end_time,
      message    |-> "Blink detected" ]

\* process, the exponential smoothing of the eye aspect ratio
smooth(prev_ear, raw_ear) ==
    IF prev_ear = None
    THEN raw_ear
    ELSE LET alpha == eye_ar_smooth_factor
         IN  RAdd(RMul(alpha, raw_ear), RMul(RSub(Num(1), alpha), prev_ear[1]))

\* A debounce check that never holds a sample back.
debounced_never(det, timestamp) == FALSE

\* process, the debounce check
debounced(det, timestamp) ==
    /\ det.last_blink_end # None
    /\ timestamp - det.last_blink_end[1] < debounce_time

\* A validation with no upper limit.
valid_duration_no_maximum(duration) == min_blink_duration <= duration

\* process, the validation of a blink's duration
valid_duration(duration) ==
    min_blink_duration <= duration /\ duration <= max_blink_duration

\* A no-face branch that takes the eye for open again.
no_face_opens_eye(det) ==
    [ detector    |-> [ det EXCEPT !.eye_closed = FALSE, !.blink_start = None ],
      metrics     |-> [ ear |-> IF det.prev_ear = None \/ det.prev_ear[1] = Num(0)
                                THEN Num(0) ELSE det.prev_ear[1] ],
      blink_event |-> None ]

\* process, when the face mesh finds no landmarks
no_face(det) ==
    [ detector    |-> det,
      metrics     |-> [ ear |-> IF det.prev_ear = None \/ det.prev_ear[1] = Num(0)
                                THEN Num(0) ELSE det.prev_ear[1] ],
      blink_event |-> None ]

\* An eye taken for closed with no start of the blink noted.
eye_closes_unstamped(seen, timestamp) == [ seen EXCEPT !.eye_closed = TRUE ]

\* process, STATE 1: the eye was open and the smoothed ratio is below the threshold
eye_closes(seen, timestamp) ==
    [ seen EXCEPT !.eye_closed = TRUE, !.blink_start = Some(timestamp) ]

\* process(frame, timestamp); face is None when the face mesh finds no landmarks, else
\* the raw eye aspect ratio of the frame.  The result is the detector after the call
\* and the two values returned.
process(det, face, timestamp) ==
    IF face = None
    THEN no_face(det)
    ELSE LET smoothed == smooth(det.prev_ear, face[1])
             seen     == [ det EXCEPT !.prev_ear = Some(smoothed) ]
             metrics  == [ ear |-> smoothed ]
             below    == RLess(smoothed, eye_ar_threshold)
         IN  IF debounced(seen, timestamp)
             THEN [ detector |-> seen, metrics |-> metrics, blink_event |-> None ]
             ELSE IF ~seen.eye_closed /\ below
             THEN [ detector    |-> eye_closes(seen, timestamp),
                    metrics     |-> metrics,
                    blink_event |-> None ]
             ELSE IF seen.eye_closed /\ ~below
             THEN LET valid ==
                          /\ seen.blink_start # None
                          /\ valid_duration(timestamp - seen.blink_start[1])
                  IN  [ detector    |-> [ seen EXCEPT
                                              !.eye_closed = FALSE,
                                              !.blink_start = None,
                                              !.last_blink_end =
                                                  IF valid THEN Some(timestamp) ELSE @ ],
                        metrics     |-> metrics,
                        blink_event |->
                            IF valid
                            THEN Some(BlinkEvent(timestamp - seen.blink_start[1],
                                                 seen.blink_start[1], timestamp))
                            ELSE None ]
             ELSE [ detector |-> seen, metrics |-> metrics, blink_event |-> None ]

---------------------------------------------------------------------------
(* main.py *)

\* MainApp.__init__, given the thresholds file found at start
MainApp(file) ==
    [ calibrating     |-> ~is_ready(CalibrationProfile(load_thresholds(file)), MIN_SAMPLES),
      blink_count     |-> 0,
      last_blink_time |-> None ]

\* A classification that counts a blink of exactly short_blink_max as a dot.
classify_inclusive(duration, thresholds) ==
    IF ~RLess(thresholds.short_blink_max, Num(duration))
    THEN Some(".")
    ELSE IF ~RLess(Num(duration), thresholds.long_blink_min)
    THEN Some("-")
    ELSE None

\* _update_loop, the symbol a blink of this duration stands for (None in the dead zone)
classify(duration, thresholds) ==
    IF RLess(Num(duration), thresholds.short_blink_max)
    THEN Some(".")
    ELSE IF ~RLess(Num(duration), thresholds.long_blink_min)
    THEN Some("-")
    ELSE None

\* A blink goes to classification whether or not the application is calibrating.
classifies_every_blink(blinked, calibrating) == blinked

\* _update_loop, the else branch of `if self.calibrating`: the blink is classified
classifies(blinked, calibrating) == blinked /\ ~calibrating

\* The gap is evaluated before the symbol is registered.
decode_gap_first(st, symbol, ticking, timestamp) ==
    LET ticked     == IF ticking THEN handle_gap(st, timestamp) ELSE st
        registered == IF symbol # None
                      THEN register_symbol(ticked, symbol[1], timestamp)
                      ELSE ticked
    IN  [ registered |-> registered, state |-> registered ]

\* _update_loop, the decoder's part of a cycle: register_symbol if the blink gave a
\* symbol, then handle_gap when not calibrating, both with the cycle's timestamp
decode(st, symbol, ticking, timestamp) ==
    LET registered == IF symbol # None
                      THEN register_symbol(st, symbol[1], timestamp)
                      ELSE st
    IN  [ registered |-> registered,
          state      |-> IF ticking THEN handle_gap(registered, timestamp) ELSE registered ]

\* _update_loop with a frame read at `timestamp`: every value the cycle computes and
\* every object after it.
update_loop(face, timestamp) ==
    LET processed   == process(detector, face, timestamp)
        event       == processed.blink_event
        blinked     == event # None /\ event[1].is_blink
        recorded    == blinked /\ app.calibrating
        profile1    == IF recorded THEN record_blink(profile, event[1].duration) ELSE profile
        storage1    == IF recorded
                       THEN record_blink_storage(profile, event[1].duration, storage)
                       ELSE storage
        config1     == IF recorded THEN profile1.thresholds ELSE config
        calibrating == IF recorded /\ is_ready(profile1, MIN_SAMPLES)
                       THEN FALSE ELSE app.calibrating
        symbol      == IF classifies(blinked, app.calibrating)
                       THEN classify(event[1].duration, get_thresholds(profile))
                       ELSE None
        decoded     == decode(state, symbol, ~calibrating, timestamp)
    IN  [ detector   |-> processed.detector,
          event      |-> event,
          recorded   |-> recorded,
          symbol     |-> symbol,
          registered |-> decoded.registered,
          ticked     |-> ~calibrating,
          state      |-> decoded.state,
          config     |-> config1,
          profile    |-> profile1,
          storage    |-> storage1,
          app        |-> [ calibrating     |-> calibrating,
                           blink_count     |-> IF blinked THEN app.blink_count + 1
                                               ELSE app.blink_count,
                           last_blink_time |-> IF blinked THEN Some(timestamp)
                                               ELSE app.last_blink_time ] ]

---------------------------------------------------------------------------
(* The decoder driven through its public operations *)

\* Timestamps lie on a grid of TimeGrid units and never exceed MaxTicks grid steps.
TimeGrid == 50

MaxTicks == 11

\* A call may come up to MaxAdvance grid steps after the previous one.
MaxAdvance == 6

\* Any symbol may extend a buffer shorter than MaxFreeLen; a longer buffer grows
\* only along the quick-command sequences.
MaxFreeLen == 4

LongBuffers ==
    { "...--", "...---", "...---.", "...---..", "...---...",
      "---..", "---...", "---...-", "---...--", "---...---",
      "--..-", "--..--", "..--." }

Symbols == {".", "-"}

Timestamps ==
    { t \in { now + k * TimeGrid : k \in 0..MaxAdvance } : t <= MaxTicks * TimeGrid }

AllowedSymbol(st, symbol) ==
    \/ Len(st.current_letter) < MaxFreeLen
    \/ (st.current_letter \o symbol) \in LongBuffers

\* The objects a specification leaves alone, as MainApp.__init__ builds them.
InitOthers ==
    /\ twin = MorseDecoder(Thresholds)
    /\ detector = BlinkDetector
    /\ app = MainApp(None)
    /\ cycles = 0

InitDecoder ==
    /\ state = DecoderState
    /\ config = Thresholds
    /\ profile = CalibrationProfile(Thresholds)
    /\ storage = None
    /\ InitOthers
    /\ now = 0
    /\ last_call = [ op |-> "init", symbol |-> "", timestamp |-> 0,
                     pre |-> DecoderState, ret |-> None ]

RegisterSymbol ==
    \E symbol \in Symbols, timestamp \in Timestamps :
        /\ AllowedSymbol(state, symbol)
        /\ state' = register_symbol(state, symbol, timestamp)
        /\ now' = timestamp
        /\ last_call' = [ op |-> "register_symbol", symbol |-> symbol,
                          timestamp |-> timestamp, pre |-> state,
                          ret |-> Some(_snapshot(state', "symbol")) ]
        /\ UNCHANGED <<twin, config, profile, storage, detector, app, cycles>>

HandleGap ==
    \E timestamp \in Timestamps :
        /\ state' = handle_gap(state, timestamp)
        /\ now' = timestamp
        /\ last_call' = [ op |-> "handle_gap", symbol |-> "",
                          timestamp |-> timestamp, pre |-> state,
                          ret |-> handle_gap_result(state, timestamp) ]
        /\ UNCHANGED <<twin, config, profile, storage, detector, app, cycles>>

Reset ==
    /\ state' = reset(state)
    /\ now' = now
    /\ last_call' = [ op |-> "reset", symbol |-> "", timestamp |-> now,
                      pre |-> state, ret |-> None ]
    /\ UNCHANGED <<twin, config, profile, storage, detector, app, cycles>>

NextDecoder == RegisterSymbol \/ HandleGap \/ Reset

SpecDecoder == InitDecoder /\ [][NextDecoder]_vars

---------------------------------------------------------------------------
(* The decoder under the timer: symbols now and then, ticks for ever *)

\* At most MaxSymbols symbols are registered.
MaxSymbols == 3

\* Time between two calls.
TickSteps == {50, 100}

InitTicks ==
    /\ state = DecoderState
    /\ config = Thresholds
    /\ profile = CalibrationProfile(Thresholds)
    /\ storage = None
    /\ InitOthers
    /\ now = 0
    /\ last_call = [ op |-> "init", pending |-> None ]

\* register_symbol.  The call record keeps the buffer the call leaves and the output
\* it found, until the next symbol.
Blink ==
    \E symbol \in Symbols, step \in TickSteps :
        /\ cycles < MaxSymbols
        /\ cycles' = cycles + 1
        /\ now' = now + step
        /\ state' = register_symbol(state, symbol, now + step)
        /\ last_call' = [ op      |-> "register_symbol",
                          pending |-> Some([ buffer |-> state'.current_letter,
                                             output |-> state.output_text ]) ]
        /\ UNCHANGED <<twin, config, profile, storage, detector, app>>

\* handle_gap at the next timer tick.  A tick that finds last_symbol_time None returns
\* at once and leaves the decoder as it is: such ticks are left out.
Tick ==
    \E step \in TickSteps :
        /\ state.last_symbol_time # None
        /\ now' = now + step
        /\ state' = handle_gap(state, now + step)
        /\ last_call' = [ op |-> "handle_gap", pending |-> last_call.pending ]
        /\ UNCHANGED <<twin, config, profile, storage, detector, app, cycles>>

NextTicks == Blink \/ Tick

\* _update_loop re-arms its timer at the end of every run, so ticks never stop.
SpecTicks == InitTicks /\ [][NextTicks]_vars /\ WF_vars(Tick)

---------------------------------------------------------------------------
(* The calibration engine driven through its public operations *)

\* The profile never holds more than MaxSamples samples.
MaxSamples == 9

\* Durations offered to record_blink: one below and one above the admissible range, two
\* admissible ones, and the next sample of ExampleSamples while the samples held are
\* a prefix of it.
ExampleSamples == <<10, 12, 11, 13, 30, 12, 11, 14>>

FreeDurations == {3, 5, 250, 260}

IsPrefix(seq, of) == Len(seq) <= Len(of) /\ seq = SubSeq(of, 1, Len(seq))

Durations(samples) ==
    FreeDurations \cup
        (IF Len(samples) < Len(ExampleSamples) /\ IsPrefix(samples, ExampleSamples)
         THEN {ExampleSamples[Len(samples) + 1]} ELSE {})

\* A thresholds file left by an earlier run (eight samples of 0.12 s), or none.
EarlierFiles == { None, save_thresholds(thresholds_from(<<12, 12, 12, 12, 12, 12, 12, 12>>)) }

\* A thresholds file cut short while it was written: "{".
TruncatedFiles == { Some([ valid |-> FALSE, value |-> <<>> ]) }

\* The manager exists: its construction did not raise.
Constructed == "samples" \in DOMAIN profile

InitCalibration ==
    /\ storage \in EarlierFiles \cup TruncatedFiles
    /\ profile = CalibrationManager(storage)
    /\ state = DecoderState
    /\ config = IF Constructed THEN profile.thresholds ELSE Thresholds
    /\ InitOthers
    /\ now = 0
    /\ last_call = [ op |-> "init", duration |-> 0, pre |-> profile, ret |-> None,
                     file |-> storage, rejected |-> FALSE ]

RecordBlink ==
    /\ Constructed
    /\ \E duration \in Durations(profile.samples) :
        /\ Len(profile.samples) < MaxSamples
        /\ profile' = record_blink(profile, duration)
        /\ storage' = record_blink_storage(profile, duration, storage)
        /\ last_call' = [ op |-> "record_blink", duration |-> duration, pre |-> profile,
                          ret |-> Some(profile'.thresholds), file |-> storage,
                          rejected |-> last_call.rejected \/ ~admissible(duration) ]
        /\ UNCHANGED <<twin, state, config, detector, app, cycles, now>>

ComputeThresholds ==
    /\ Constructed
    /\ profile' = [ profile EXCEPT !.thresholds = compute_thresholds(profile) ]
    /\ last_call' = [ op |-> "compute_thresholds", duration |-> 0, pre |-> profile,
                      ret |-> Some(profile'.thresholds), file |-> storage,
                      rejected |-> last_call.rejected ]
    /\ UNCHANGED <<twin, storage, state, config, detector, app, cycles, now>>

NextCalibration == RecordBlink \/ ComputeThresholds

SpecCalibration == InitCalibration /\ [][NextCalibration]_vars

---------------------------------------------------------------------------
(* The application: _update_loop on a timer, the Clear button *)

\* The program runs at most MaxCycles update loops.
MaxCycles == 7

\* Time between two update loops.
Steps == {20, 200}

\* Smoothed eye aspect ratios the frames lead to: eye closed, eye open.
EarGrid == { Rat(10, 100), Rat(30, 100) }

\* The raw ratio that smooths to `target` after `prev_ear`.
RawEar(prev_ear, target) ==
    IF prev_ear = None
    THEN target
    ELSE RMul(RSub(target, RMul(RSub(Num(1), eye_ar_smooth_factor), prev_ear[1])),
              Rat(10, 7))

Faces == { None } \cup { Some(RawEar(detector.prev_ear, target)) : target \in EarGrid }

\* Samples held after seven calibration blinks.
SevenSamples == { <<50, 50, 50, 50, 50, 50, 50>> }

\* The program as constructed, or as it stands at the end of the cycle that recorded
\* its seventh calibration blink.
Init ==
    /\ twin = MorseDecoder(Thresholds)
    /\ storage \in EarlierFiles
    /\ state = DecoderState
    /\ config = load_thresholds(storage)
    /\ cycles = 0
    /\ now = 0
    /\ \/ /\ profile = CalibrationProfile(load_thresholds(storage))
          /\ detector = BlinkDetector
          /\ app = MainApp(storage)
       \/ /\ profile \in { [ thresholds |-> load_thresholds(storage), samples |-> seven ] :
                               seven \in SevenSamples }
          /\ detector = [ prev_ear       |-> Some(Rat(30, 100)),
                          eye_closed     |-> FALSE,
                          blink_start    |-> None,
                          last_blink_end |-> Some(now) ]
          /\ app = [ calibrating |-> TRUE, blink_count |-> 7, last_blink_time |-> Some(now) ]
    /\ last_call = [ op |-> "init" ]

CameraRead == BOOLEAN

UpdateLoop ==
    \E ret \in CameraRead, step \in Steps, face \in Faces :
        \E timestamp \in { now + step } : \E cycle \in { update_loop(face, timestamp) } :
            /\ cycles < MaxCycles
            /\ cycles' = cycles + 1
            /\ now' = timestamp
            /\ UNCHANGED twin
            /\ IF ret
               THEN /\ detector' = cycle.detector
                    /\ state' = cycle.state
                    /\ config' = cycle.config
                    /\ profile' = cycle.profile
                    /\ storage' = cycle.storage
                    /\ app' = cycle.app
                    /\ last_call' = [ op         |-> "update_loop",
                                      ret        |-> TRUE,
                                      timestamp  |-> timestamp,
                                      event      |-> cycle.event,
                                      recorded   |-> cycle.recorded,
                                      symbol     |-> cycle.symbol,
                                      registered |-> cycle.registered,
                                      ticked     |-> cycle.ticked,
                                      pre        |-> [ state    |-> state,
                                                       profile  |-> profile,
                                                       storage  |-> storage,
                                                       detector |-> detector,
                                                       app      |-> app ] ]
               ELSE /\ UNCHANGED <<detector, state, config, profile, storage, app>>
                    /\ last_call' = [ op |-> "update_loop", ret |-> FALSE ]

HandleClear ==
    /\ state' = reset(state)
    /\ last_call' = [ op |-> "handle_clear" ]
    /\ UNCHANGED <<twin, config, profile, storage, detector, app, cycles, now>>

Next == UpdateLoop \/ HandleClear

Spec == Init /\ [][Next]_vars

---------------------------------------------------------------------------
(* The blink detector driven frame by frame *)

\* The detector processes at most MaxFrames frames.
MaxFrames == 6

\* Time between two frames: none, below min_blink_duration, between it and
\* debounce_time, and long enough for two of them to exceed max_blink_duration.
FrameSteps == {0, 2, 5, 200}

InitDetector ==
    /\ twin = MorseDecoder(Thresholds)
    /\ detector = BlinkDetector
    /\ state = DecoderState
    /\ config = Thresholds
    /\ profile = CalibrationProfile(Thresholds)
    /\ storage = None
    /\ app = MainApp(None)
    /\ cycles = 0
    /\ now = 0
    /\ last_call = [ op |-> "init", face |-> None, timestamp |-> 0, pre |-> detector,
                     metrics |-> [ ear |-> Num(0) ], event |-> None,
                     previous |-> None, held_back |-> FALSE ]

\* One call of process.  The call record keeps the last event emitted before this call
\* and whether a sample has been held back by the debounce check since that event.
Process ==
    \E step \in FrameSteps, face \in Faces :
        \E timestamp \in { now + step } :
        \E result \in { process(detector, face, timestamp) } :
            /\ cycles < MaxFrames
            /\ cycles' = cycles + 1
            /\ now' = timestamp
            /\ detector' = result.detector
            /\ last_call' =
                   [ op        |-> "process",
                     face      |-> face,
                     timestamp |-> timestamp,
                     pre       |-> detector,
                     metrics   |-> result.metrics,
                     event     |-> result.blink_event,
                     previous  |-> IF last_call.event # None
                                   THEN last_call.event ELSE last_call.previous,
                     held_back |-> IF last_call.event # None
                                   THEN face # None /\ debounced(detector, timestamp)
                                   ELSE \/ last_call.held_back
                                        \/ face # None /\ debounced(detector, timestamp) ]
            /\ UNCHANGED <<twin, state, config, profile, storage, app>>

NextDetector == Process

SpecDetector == InitDetector /\ [][NextDetector]_vars

---------------------------------------------------------------------------
(* Two decoders given the same calls, each under thresholds of its own *)

\* The register_symbol and handle_gap calls of a run.
MaxCalls == 6

\* A call comes 0.5 s or 1.5 s after the previous one.
CallSteps == {50, 150}

\* The dataclass defaults, and the thresholds computed from eight samples of 0.12 s
\* (symbol_gap 0.4 s, letter_gap 1.0 s, word_gap 2.0 s).
ThresholdChoices == { Thresholds, thresholds_from(<<12, 12, 12, 12, 12, 12, 12, 12>>) }

\* The first decoder is (config, state), the second is twin.
InitTwoRuns ==
    /\ state = DecoderState
    /\ config = Thresholds
    /\ twin = MorseDecoder(Thresholds)
    /\ profile = CalibrationProfile(Thresholds)
    /\ storage = None
    /\ detector = BlinkDetector
    /\ app = MainApp(None)
    /\ cycles = 0
    /\ now = 0
    /\ last_call = [ op |-> "init", symbol |-> "", timestamp |-> 0,
                     pre |-> DecoderState, ret |-> None ]

RegisterSymbolInBoth ==
    \E symbol \in Symbols, step \in CallSteps :
        /\ cycles < MaxCalls
        /\ AllowedSymbol(state, symbol)
        /\ state' = register_symbol(state, symbol, now + step)
        /\ twin' = [ twin EXCEPT !.state = register_symbol(twin.state, symbol, now + step) ]
        /\ now' = now + step
        /\ cycles' = cycles + 1
        /\ last_call' = [ op |-> "register_symbol", symbol |-> symbol,
                          timestamp |-> now + step, pre |-> state,
                          ret |-> Some(_snapshot(state', "symbol")) ]
        /\ UNCHANGED <<config, profile, storage, detector, app>>

HandleGapInBoth ==
    \E step \in CallSteps :
        /\ cycles < MaxCalls
        /\ state' = handle_gap(state, now + step)
        /\ twin' = [ twin EXCEPT !.state = handle_gap(twin.state, now + step) ]
        /\ now' = now + step
        /\ cycles' = cycles + 1
        /\ last_call' = [ op |-> "handle_gap", symbol |-> "",
                          timestamp |-> now + step, pre |-> state,
                          ret |-> handle_gap_result(state, now + step) ]
        /\ UNCHANGED <<config, profile, storage, detector, app>>

\* update_thresholds on the first decoder, between any two calls
UpdateThresholds ==
    \E thresholds \in ThresholdChoices :
        \E decoder \in { update_thresholds([ config |-> config, state |-> state ],
                                           thresholds) } :
            /\ config' = decoder.config
            /\ state' = decoder.state
            /\ UNCHANGED <<twin, profile, storage, detector, app, cycles, now, last_call>>

\* update_thresholds on the second decoder, between any two calls
UpdateTwinThresholds ==
    \E thresholds \in ThresholdChoices :
        /\ twin' = update_thresholds(twin, thresholds)
        /\ UNCHANGED <<state, config, profile, storage, detector, app, cycles, now,
                       last_call>>

NextTwoRuns ==
    RegisterSymbolInBoth \/ HandleGapInBoth \/ UpdateThresholds \/ UpdateTwinThresholds

SpecTwoRuns == InitTwoRuns /\ [][NextTwoRuns]_vars

---------------------------------------------------------------------------
(* Claims about the decoder (SpecDecoder) *)

Called(op) == last_call.op = op

pre == last_call.pre

\* The tick just made found the decoder in `mode` with time elapsed on the clock that
\* mode watches (the last symbol in BUILDING_SYMBOL, the confirmation clock otherwise).
TickedIn(mode) == Called("handle_gap") /\ pre.mode = mode /\ pre.last_symbol_time # None

SinceSymbol == last_call.timestamp - pre.last_symbol_time[1]

SinceConfirmation == last_call.timestamp - pre.confirmation_start[1]

\* C1: whatever the decoder state, register_symbol(s, t) appends s to current_letter,
\* sets last_symbol_time to t, forces BUILDING_SYMBOL, clears the confirmation clock
\* and leaves output_text alone.
C1_RegisterSymbol ==
    Called("register_symbol") =>
        /\ last_call.symbol \in Symbols
        /\ state.current_letter = pre.current_letter \o last_call.symbol
        /\ state.last_symbol_time = <<last_call.timestamp>>
        /\ state.mode = "building"
        /\ state.confirmation_start = <<>>
        /\ state.output_text = pre.output_text

\* C1 witness: a symbol registered while a letter confirmation clock was pending and
\* text had already been translated.
C1_Witness ==
    /\ Called("register_symbol")
    /\ pre.mode = "confirming"
    /\ pre.confirmation_start # <<>>
    /\ pre.output_text # <<>>
    /\ Len(state.current_letter) >= 2

\* C2 as stated: with "..." buffered, a tick that comes once more than
\* symbol_confirmation_time + 1.0 s have passed since the last symbol finds or makes
\* the output grown by exactly "S", the buffer empty and the mode CONFIRMING_WORD.
C2_Original ==
    ( /\ Called("handle_gap")
      /\ pre.current_letter = "..."
      /\ pre.last_symbol_time # <<>>
      /\ SinceSymbol > 150 + 100 ) =>
        /\ state.output_text = Append(pre.output_text, "S")
        /\ state.current_letter = ""
        /\ state.mode = "confirming_word"

\* C2 amended: with "..." buffered, the first tick that finds symbol_confirmation_time
\* elapsed since the last symbol only starts the confirmation clock; the first tick at
\* least 1.0 s after that one appends exactly "S", empties the buffer and enters
\* CONFIRMING_WORD; no tick does so earlier than symbol_confirmation_time + 1.0 s
\* after the last symbol.
C2_Amended ==
    (Called("handle_gap") /\ pre.current_letter = "..." /\ pre.last_symbol_time # <<>>) =>
        /\ (pre.mode = "building" /\ SinceSymbol >= 150) =>
               /\ state = [ pre EXCEPT !.mode = "confirming",
                                       !.confirmation_start = <<last_call.timestamp>> ]
        /\ (pre.mode = "building" /\ SinceSymbol < 150) => state = pre
        /\ (pre.mode = "confirming" /\ SinceConfirmation >= 100) =>
               /\ state.output_text = Append(pre.output_text, "S")
               /\ state.current_letter = ""
               /\ state.mode = "confirming_word"
               /\ SinceSymbol >= 150 + 100
        /\ (pre.mode = "confirming" /\ SinceConfirmation < 100) => state = pre

\* C2 witness: "..." finalized as the first letter of the output.
C2_Witness ==
    /\ TickedIn("confirming")
    /\ pre.current_letter = "..."
    /\ state.output_text = <<"S">>
    /\ state.current_letter = ""
    /\ state.mode = "confirming_word"

Finalized == TickedIn("confirming") /\ state.mode = "confirming_word"

HelpPhrase == <<"H","E","L","P","!"," ","E","M","E","R","G","E","N","C","Y","!"," ">>

NursePhrase == <<"C","a","l","l"," ","t","h","e"," ","n","u","r","s","e"," ">>

\* C3: finalizing a buffer that equals a quick-command sequence appends the whole
\* phrase and one space, never a lexicon character: "...---..." gives the emergency
\* phrase and "--..--", which the lexicon maps to ",", gives its phrase too.
C3_QuickCommand ==
    Finalized =>
        /\ (pre.current_letter \in DOMAIN QUICK_COMMANDS) =>
               /\ state.output_text =
                      pre.output_text \o QUICK_COMMANDS[pre.current_letter] \o <<" ">>
               /\ state.current_letter = ""
        /\ (pre.current_letter = "...---...") =>
               state.output_text = pre.output_text \o HelpPhrase
        /\ (pre.current_letter = "--..--") =>
               state.output_text = pre.output_text \o NursePhrase

\* C3 witness: "...---..." and then "--..--" finalized, one phrase after the other.
C3_Witness ==
    /\ Finalized
    /\ pre.current_letter = "--..--"
    /\ state.output_text = HelpPhrase \o NursePhrase

TwoSpacesAtEnd(text) ==
    Len(text) >= 2 /\ text[Len(text)] = " " /\ text[Len(text) - 1] = " "

\* C4: in CONFIRMING_WORD a tick at least 2.0 s after the clock started appends one
\* space (none when the output already ends with one) and moves to IDLE, an earlier
\* tick changes nothing, a tick in IDLE changes nothing, and the output never ends
\* with two spaces.
C4_WordGap ==
    /\ (TickedIn("confirming_word") /\ SinceConfirmation >= 200) =>
           /\ state.mode = "idle"
           /\ state.output_text =
                  IF pre.output_text[Len(pre.output_text)] = " "
                  THEN pre.output_text
                  ELSE pre.output_text \o <<" ">>
    /\ (TickedIn("confirming_word") /\ SinceConfirmation < 200) => state = pre
    /\ (Called("handle_gap") /\ pre.mode = "idle") => state = pre
    /\ ~TwoSpacesAtEnd(state.output_text)

\* C4 witness: a tick in IDLE after the word gap added the one space behind a letter.
C4_Witness ==
    /\ Called("handle_gap")
    /\ pre.mode = "idle"
    /\ state.output_text = <<"S", " ">>

\* C5: reset() leaves the initial state whatever came before, and both getters then
\* return the empty string.
C5_Reset ==
    Called("reset") =>
        /\ state.current_letter = ""
        /\ state.output_text = <<>>
        /\ state.mode = "idle"
        /\ state.last_symbol_time = <<>>
        /\ state.confirmation_start = <<>>
        /\ get_translation(state) = <<>>
        /\ get_current_buffer_preview(state) = ""

\* C5 witness: a reset with text translated, a letter buffered and a clock pending.
C5_Witness ==
    /\ Called("reset")
    /\ pre.output_text # <<>>
    /\ pre.current_letter # ""
    /\ pre.mode = "confirming"
    /\ pre.confirmation_start # <<>>

Unknown(buffer) ==
    buffer \notin DOMAIN QUICK_COMMANDS /\ buffer \notin DOMAIN MORSE_CODE_DICT

\* C21: finalizing a non-empty buffer that is neither a quick command nor in the
\* lexicon appends exactly "?", clears the buffer and enters CONFIRMING_WORD; and no
\* finalization leaves the output as it was.
C21_Placeholder ==
    Finalized =>
        /\ pre.current_letter # ""
        /\ state.current_letter = ""
        /\ Len(state.output_text) > Len(pre.output_text)
        /\ Unknown(pre.current_letter) =>
               /\ state.output_text = pre.output_text \o <<"?">>
               /\ state.mode = "confirming_word"
               /\ state.confirmation_start = <<last_call.timestamp>>

\* C21 witness: "----" finalized behind a letter.
C21_Witness ==
    /\ Finalized
    /\ pre.current_letter = "----"
    /\ pre.output_text # <<>>
    /\ state.output_text = pre.output_text \o <<"?">>

\* C22: in BUILDING_SYMBOL a tick at t enters CONFIRMING_LETTER and sets the
\* confirmation clock to t exactly when t - last_symbol_time >= 1.5 s; otherwise it
\* changes nothing; output and buffer are as before either way.
C22_BuildingTick ==
    TickedIn("building") =>
        /\ (SinceSymbol >= 150) =>
               /\ state.mode = "confirming"
               /\ state.confirmation_start = <<last_call.timestamp>>
               /\ state = [ pre EXCEPT !.mode = "confirming",
                                       !.confirmation_start = <<last_call.timestamp>> ]
        /\ (SinceSymbol < 150) => state = pre
        /\ state.output_text = pre.output_text
        /\ state.current_letter = pre.current_letter
        /\ last_call.ret = <<>>

\* C22 witness: a tick exactly 1.5 s after the last symbol.
C22_Witness ==
    /\ TickedIn("building")
    /\ SinceSymbol = 150
    /\ state.mode = "confirming"
    /\ pre.output_text # <<>>

\* C23 as stated: confirmation_start is set whenever the mode is CONFIRMING_LETTER or
\* CONFIRMING_WORD and unset whenever the mode is IDLE.
C23_Original ==
    /\ (state.mode \in {"confirming", "confirming_word"}) => state.confirmation_start # <<>>
    /\ (state.mode = "idle") => state.confirmation_start = <<>>

\* C23 amended: confirmation_start is set whenever the mode is CONFIRMING_LETTER or
\* CONFIRMING_WORD and unset whenever the mode is BUILDING_SYMBOL; in IDLE it is unset
\* after construction and after reset, and a word gap leaves in it the time that
\* CONFIRMING_WORD was entered.
C23_Amended ==
    /\ (state.mode \in {"confirming", "confirming_word"}) => state.confirmation_start # <<>>
    /\ (state.mode = "building") => state.confirmation_start = <<>>
    /\ (Called("init") \/ Called("reset")) =>
           state.mode = "idle" /\ state.confirmation_start = <<>>
    /\ (TickedIn("confirming_word") /\ state.mode = "idle") =>
           /\ state.confirmation_start = pre.confirmation_start
           /\ state.confirmation_start # <<>>
    /\ (Called("handle_gap") /\ pre.mode = "idle") =>
           state.confirmation_start = pre.confirmation_start

\* C23 witness: a tick in IDLE after a word gap, the clock of the finished word still
\* in confirmation_start.
C23_Witness ==
    /\ Called("handle_gap")
    /\ pre.mode = "idle"
    /\ state.mode = "idle"
    /\ state.confirmation_start # <<>>
    /\ state.last_symbol_time = <<>>

\* What finalizing `buffer` appends to the output.
Translation(buffer) ==
    IF buffer \in DOMAIN QUICK_COMMANDS
    THEN QUICK_COMMANDS[buffer] \o <<" ">>
    ELSE IF buffer \in DOMAIN MORSE_CODE_DICT
    THEN <<MORSE_CODE_DICT[buffer]>>
    ELSE <<"?">>

\* The letter buffered at the last symbol is in the output, the word is closed and
\* the decoder is idle.
Settled ==
    /\ state.mode = "idle"
    /\ state.current_letter = ""
    /\ last_call.pending # <<>>
    /\ LET text == last_call.pending[1].output \o Translation(last_call.pending[1].buffer)
       IN  state.output_text =
               IF text[Len(text)] = " " THEN text ELSE text \o <<" ">>

\* C20: once a symbol is registered and ticks keep coming with advancing timestamps,
\* either a further symbol is registered or the buffered letter is eventually
\* finalized into the output and the decoder returns to IDLE.
C20_EventuallyIdle ==
    \A n \in 1..MaxSymbols :
        (cycles = n /\ Called("register_symbol")) ~> (cycles > n \/ Settled)

\* C20 witness: the ticks after ".-", registered behind a finished word, have put
\* its letter into the output and the decoder is idle again.
C20_Witness ==
    /\ Called("handle_gap")
    /\ Settled
    /\ last_call.pending[1].buffer = ".-"
    /\ state.output_text = <<"E", " ", "A", " ">>

\* The text that finalizing the buffer now held would append, a trailing space left off.
WouldAppend ==
    LET finalized == _finalize_letter(state)
    IN  RStrip(SubSeq(finalized.output_text, Len(state.output_text) + 1,
                      Len(finalized.output_text)))

\* C24: for every non-empty buffer the preview is the text that finalizing the buffer
\* would append to the output (a trailing space ignored), quick commands included.
C24_PreviewIsTranslation ==
    (state.current_letter # "") =>
        <<get_current_buffer_preview(state)>> = WouldAppend

\* C25: the buffer is non-empty exactly when the mode is BUILDING_SYMBOL or
\* CONFIRMING_LETTER, and last_symbol_time is unset exactly when the mode is IDLE.
C25_BufferAndMode ==
    /\ (state.current_letter # "") <=> (state.mode \in {"building", "confirming"})
    /\ (state.last_symbol_time = <<>>) <=> (state.mode = "idle")
    /\ (state.mode \in {"idle", "confirming_word"}) => state.current_letter = ""

\* C25 witness: a word gap has returned the decoder to IDLE with text in the output.
C25_Witness ==
    /\ TickedIn("confirming_word")
    /\ state.mode = "idle"
    /\ state.current_letter = ""
    /\ state.last_symbol_time = <<>>
    /\ state.output_text # <<>>

\* C26: a symbol registered in CONFIRMING_LETTER extends the buffered letter, appends
\* nothing to the output and restarts the wait: the letter is finalized no earlier
\* than 1.5 s + 1.0 s after the last symbol.  A symbol registered in CONFIRMING_WORD
\* starts a new letter behind an output left as it was, and the letter's finalization
\* appends its text right behind that output, with no space between.
C26_SymbolWhileConfirming ==
    /\ (Called("register_symbol") /\ pre.mode = "confirming") =>
           /\ pre.current_letter # ""
           /\ state.current_letter = pre.current_letter \o last_call.symbol
           /\ state.output_text = pre.output_text
           /\ state.mode = "building"
           /\ state.confirmation_start = <<>>
           /\ state.last_symbol_time = <<last_call.timestamp>>
    /\ (Called("register_symbol") /\ pre.mode = "confirming_word") =>
           /\ state.current_letter = last_call.symbol
           /\ state.output_text = pre.output_text
           /\ state.mode = "building"
           /\ state.confirmation_start = <<>>
    /\ (Called("handle_gap") /\ pre.mode \in {"building", "confirming"}) =>
           \/ state.output_text = pre.output_text /\ state.current_letter = pre.current_letter
           \/ /\ SinceSymbol >= 150 + 100
              /\ state.current_letter = ""
              /\ state.output_text =
                     pre.output_text \o
                         (IF pre.current_letter \in DOMAIN QUICK_COMMANDS
                          THEN QUICK_COMMANDS[pre.current_letter] \o <<" ">>
                          ELSE IF pre.current_letter \in DOMAIN MORSE_CODE_DICT
                          THEN <<MORSE_CODE_DICT[pre.current_letter]>>
                          ELSE <<"?">>)

\* C26 witness: "-" registered in CONFIRMING_WORD behind "E" and finalized: "ET".
C26_Witness ==
    /\ Finalized
    /\ pre.current_letter = "-"
    /\ pre.output_text = <<"E">>
    /\ state.output_text = <<"E", "T">>

\* The mode a tick may leave a mode for.
NextMode(mode) ==
    CASE mode = "building"        -> "confirming"
      [] mode = "confirming"      -> "confirming_word"
      [] mode = "confirming_word" -> "idle"
      [] OTHER                    -> mode

\* C27: a tick makes at most one mode transition; no tick earlier than 1.5 s + 1.0 s
\* after the last register_symbol finalizes a letter; a tick in BUILDING_SYMBOL,
\* however late, only enters CONFIRMING_LETTER and appends nothing.
C27_OneTransitionPerTick ==
    Called("handle_gap") =>
        /\ state.mode \in {pre.mode, NextMode(pre.mode)}
        /\ (pre.last_symbol_time # <<>> /\ SinceSymbol < 150 + 100) =>
               /\ state.output_text = pre.output_text
               /\ state.current_letter = pre.current_letter
        /\ (pre.mode = "building") =>
               /\ state.mode \in {"building", "confirming"}
               /\ state.output_text = pre.output_text
               /\ state.current_letter = pre.current_letter

\* C27 witness: a single tick 2.5 s or more after the last symbol, in BUILDING_SYMBOL.
C27_Witness ==
    /\ TickedIn("building")
    /\ SinceSymbol >= 150 + 100
    /\ state.mode = "confirming"
    /\ state.current_letter # ""
    /\ state.output_text = pre.output_text

SpacedWell(text) ==
    /\ text = <<>> \/ text[1] # " "
    /\ \A i \in 1..(Len(text) - 1) : ~(text[i] = " " /\ text[i + 1] = " ")

\* C28: output_text never starts with a space nor holds two spaces in a row, and a
\* step other than a reset leaves the earlier output_text as a prefix of the later.
C28_OutputGrows ==
    /\ [](SpacedWell(state.output_text))
    /\ [][(last_call'.op # "reset") =>
              /\ Len(state.output_text) <= Len(state'.output_text)
              /\ state.output_text = SubSeq(state'.output_text, 1, Len(state.output_text))
         ]_vars

\* C28 witness: a quick-command phrase appended behind an output that ends with the
\* space of an earlier phrase.
C28_Witness ==
    /\ Finalized
    /\ pre.output_text # <<>>
    /\ pre.output_text[Len(pre.output_text)] = " "
    /\ pre.current_letter \in DOMAIN QUICK_COMMANDS
    /\ Len(state.output_text) > Len(pre.output_text) + 2

---------------------------------------------------------------------------
(* Claims about the calibration engine (SpecCalibration) *)

\* The call just made produced a Thresholds value from the samples now held.
Produced ==
    \/ Called("compute_thresholds") /\ profile.samples # <<>>
    \/ Called("record_blink") /\ Len(profile.samples) >= 8

\* record_blink just recomputed the thresholds.
Recomputed == Called("record_blink") /\ Len(profile.samples) >= 8

produced == profile.thresholds

AllEqual(seq) == \A i \in 1..Len(seq) : seq[i] = seq[1]

\* C7: every Thresholds value compute_thresholds produces from a non-empty sequence of
\* admissible samples has short_blink_max < long_blink_min.
C7_ShortBelowLong ==
    Produced =>
        produced.short_blink_max[1] * produced.long_blink_min[2]
            < produced.long_blink_min[1] * produced.short_blink_max[2]

\* C7 witness: thresholds recomputed by record_blink from eight equal samples.
C7_Witness ==
    /\ Called("record_blink")
    /\ Len(profile.samples) = 8
    /\ AllEqual(profile.samples)

\* long_blink_min - short_blink_max, times the two denominators
ScaledSeparation ==
    produced.long_blink_min[1] * produced.short_blink_max[2]
        - produced.short_blink_max[1] * produced.long_blink_min[2]

ScaleOfSeparation == produced.long_blink_min[2] * produced.short_blink_max[2]

\* C8 as stated: every recomputed Thresholds value has
\* long_blink_min - short_blink_max >= 0.25 s.
C8_Original == Recomputed => ScaledSeparation >= 25 * ScaleOfSeparation

\* C8 amended: every recomputed Thresholds value has
\* long_blink_min - short_blink_max >= 0.2 s.
C8_Amended == Produced => ScaledSeparation >= 20 * ScaleOfSeparation

\* C8 witness: a recomputation that leaves exactly 0.2 s between the two thresholds.
C8_Witness ==
    /\ Called("record_blink")
    /\ Len(profile.samples) >= 8
    /\ ScaledSeparation = 20 * ScaleOfSeparation

\* The samples compute_thresholds goes on with after its outlier filter.
Filtered == remove_outliers(profile.samples)

MaxOf(a, b) == IF a >= b THEN a ELSE b

\* C9 as stated: recomputation sets short_blink_max = max(0.08, avg * 0.65), avg the
\* mean of the outlier-filtered samples.
C9_Original ==
    Recomputed =>
        produced.short_blink_max[1] * 100 * Len(Filtered)
            = MaxOf(8 * 100 * Len(Filtered), 65 * SumSeq(Filtered))
                  * produced.short_blink_max[2]

\* C9 amended: recomputation sets short_blink_max = max(0.08, min_dur * 0.8), min_dur
\* the smallest of the outlier-filtered samples.
C9_Amended ==
    Produced =>
        produced.short_blink_max[1] * 10
            = MaxOf(8 * 10, 8 * MinSeq(Filtered)) * produced.short_blink_max[2]

\* C9 witness: a recomputation after the filter dropped a sample, with 80% of the
\* smallest remaining sample above the 0.08 s floor.
C9_Witness ==
    /\ Produced
    /\ Len(Filtered) < Len(profile.samples)
    /\ 8 * MinSeq(Filtered) > 8 * 10

RECURSIVE SumOfSquares(_)
SumOfSquares(seq) ==
    IF seq = <<>> THEN 0 ELSE Head(seq) * Head(seq) + SumOfSquares(Tail(seq))

\* d lies within 2 sample standard deviations of the mean of seq: with n = Len(seq),
\* S the sum and Q the sum of squares, the sample variance is (n*Q - S*S) / (n*(n-1)).
NotAnOutlier(d, seq) ==
    LET n == Len(seq)
        S == SumSeq(seq)
        Q == SumOfSquares(seq)
    IN  (n - 1) * (n * d - S) * (n * d - S) <= 4 * n * (n * Q - S * S)

Remaining(seq) ==
    IF Len(seq) >= 5
    THEN LET Keep(d) == NotAnOutlier(d, seq) IN SelectSeq(seq, Keep)
    ELSE seq

\* C10: with at least 5 samples held, recomputation drops every sample farther than 2
\* sample standard deviations from the mean and derives the thresholds from the rest;
\* for [0.10, 0.12, 0.11, 0.13, 0.30, 0.12, 0.11, 0.14] the rest is the seven samples
\* other than 0.30 and the thresholds are theirs.
C10_Outliers ==
    Produced =>
        /\ produced = thresholds_from(Remaining(profile.samples))
        /\ (profile.samples = <<10, 12, 11, 13, 30, 12, 11, 14>>) =>
               /\ Remaining(profile.samples) = <<10, 12, 11, 13, 12, 11, 14>>
               /\ produced = [ short_blink_max |-> <<8, 1>>,
                               long_blink_min  |-> <<28, 1>>,
                               symbol_gap      |-> <<40, 1>>,
                               letter_gap      |-> <<100, 1>>,
                               word_gap        |-> <<200, 1>> ]
               /\ produced = compute_thresholds(
                                 [ thresholds |-> last_call.pre.thresholds,
                                   samples    |-> <<10, 12, 11, 13, 12, 11, 14>> ])

\* C10 witness: record_blink took the eighth sample of the example and recomputed.
C10_Witness ==
    /\ Called("record_blink")
    /\ profile.samples = <<10, 12, 11, 13, 30, 12, 11, 14>>
    /\ Len(last_call.pre.samples) = 7

\* The thresholds file holds exactly the five fields of `thresholds`.
Persisted(thresholds) ==
    /\ storage # None
    /\ storage[1].valid
    /\ DOMAIN storage[1].value =
           {"short_blink_max", "long_blink_min", "symbol_gap", "letter_gap", "word_gap"}
    /\ storage[1].value["short_blink_max"] = thresholds.short_blink_max
    /\ storage[1].value["long_blink_min"] = thresholds.long_blink_min
    /\ storage[1].value["symbol_gap"] = thresholds.symbol_gap
    /\ storage[1].value["letter_gap"] = thresholds.letter_gap
    /\ storage[1].value["word_gap"] = thresholds.word_gap

OutOfRange(duration) == duration < 4 \/ duration > 250

\* Durations within the range: its two ends and two between them.
InRange == {4, 5, 100, 250}

\* C12: record_blink never appends a duration below 0.04 s or above 2.5 s: the samples
\* after the call are those before it; and after such a call a duration within the
\* range is still appended, the eighth sample making the profile ready.
C12_OutOfRange ==
    /\ (Called("record_blink") /\ OutOfRange(last_call.duration)) =>
           profile.samples = last_call.pre.samples
    /\ (Called("record_blink") /\ last_call.rejected) =>
           \A duration \in InRange :
               /\ record_blink(profile, duration).samples = Append(profile.samples, duration)
               /\ (Len(profile.samples) >= 7) =>
                      is_ready(record_blink(profile, duration), 8)

\* C12 witness: calibration completes with its eighth sample after an out-of-range
\* duration was turned down.
C12_Witness ==
    /\ Called("record_blink")
    /\ last_call.rejected
    /\ ~OutOfRange(last_call.duration)
    /\ Len(last_call.pre.samples) = 7
    /\ Len(profile.samples) = 8
    /\ storage # last_call.file

\* C13: after a record_blink call that recomputes, the thresholds file holds the five
\* fields of the profile's thresholds, and loading it gives them back; a call changes
\* the file in no other way.
C13_PersistedEqualsMemory ==
    Called("record_blink") =>
        /\ (Len(profile.samples) >= 8) =>
               /\ Persisted(profile.thresholds)
               /\ ~load_thresholds_raises(storage)
               /\ load_thresholds(storage) = profile.thresholds
        /\ (storage # last_call.file) => Persisted(profile.thresholds)
        /\ (Len(profile.samples) < 8) => storage = last_call.file

\* C13 witness: a recomputation that changed the thresholds over a file left by an
\* earlier run.
C13_Witness ==
    /\ Called("record_blink")
    /\ Len(profile.samples) >= 8
    /\ last_call.file # <<>>
    /\ profile.thresholds # last_call.pre.thresholds
    /\ storage # last_call.file

\* C14: constructing the calibration manager never fails: over an absent file or one
\* that is not valid JSON it holds the default Thresholds (0.30, 0.50, 0.5, 1.5, 3.0).
C14_LoadNeverFails ==
    Called("init") =>
        /\ Constructed
        /\ (storage = <<>> \/ ~storage[1].valid) =>
               profile.thresholds = [ short_blink_max |-> <<30, 1>>,
                                      long_blink_min  |-> <<50, 1>>,
                                      symbol_gap      |-> <<50, 1>>,
                                      letter_gap      |-> <<150, 1>>,
                                      word_gap        |-> <<300, 1>> ]

---------------------------------------------------------------------------
(* Claims about the blink detector (SpecDetector) *)

\* The call just made saw a face, and its smoothed ratio is not below the threshold.
SeenOpen ==
    /\ Called("process")
    /\ last_call.face # <<>>
    /\ last_call.metrics.ear[1] * 100 >= 18 * last_call.metrics.ear[2]

\* The duration of the blink that the call just made ended.
Closure == last_call.timestamp - last_call.pre.blink_start[1]

\* C15: when a sample at t finds the eye open after it was closed, a BlinkEvent is
\* emitted iff 0.03 s <= t - blink_start <= 3.0 s; the event lasts from blink_start
\* to t and its duration is end_time - start_time; last_blink_end becomes t in that
\* case and is kept otherwise; either way eye_closed is false and blink_start None.
C15_ClosedToOpen ==
    (SeenOpen /\ last_call.pre.eye_closed) =>
        /\ last_call.pre.blink_start # <<>>
        /\ (last_call.event # <<>>) <=> (3 <= Closure /\ Closure <= 300)
        /\ (last_call.event # <<>>) =>
               /\ last_call.event[1].is_blink
               /\ last_call.event[1].start_time = last_call.pre.blink_start[1]
               /\ last_call.event[1].end_time = last_call.timestamp
               /\ last_call.event[1].duration =
                      last_call.event[1].end_time - last_call.event[1].start_time
               /\ detector.last_blink_end = <<last_call.timestamp>>
        /\ (last_call.event = <<>>) =>
               detector.last_blink_end = last_call.pre.last_blink_end
        /\ ~detector.eye_closed
        /\ detector.blink_start = <<>>

\* C15 witness: an eye closed for more than 3.0 s opens after an earlier blink, and
\* nothing is emitted.
C15_Witness ==
    /\ SeenOpen
    /\ last_call.pre.eye_closed
    /\ Closure > 300
    /\ last_call.event = <<>>
    /\ last_call.pre.last_blink_end # <<>>

\* The sample just processed came less than debounce_time after last_blink_end.
HeldBack ==
    /\ Called("process")
    /\ last_call.face # <<>>
    /\ last_call.pre.last_blink_end # <<>>
    /\ last_call.timestamp - last_call.pre.last_blink_end[1] < 8

\* C16: a sample less than 0.08 s after last_blink_end evaluates no transition
\* (eye_closed, blink_start and last_blink_end stay, no event), and of two emitted
\* BlinkEvents the later starts at least 0.08 s after the earlier ended.
C16_Debounce ==
    /\ HeldBack =>
           /\ last_call.event = <<>>
           /\ detector.eye_closed = last_call.pre.eye_closed
           /\ detector.blink_start = last_call.pre.blink_start
           /\ detector.last_blink_end = last_call.pre.last_blink_end
    /\ (Called("process") /\ last_call.event # <<>> /\ last_call.previous # <<>>) =>
           last_call.event[1].start_time >= last_call.previous[1].end_time + 8

\* C16 witness: a second BlinkEvent, after a sample was held back since the first.
C16_Witness ==
    /\ Called("process")
    /\ last_call.event # <<>>
    /\ last_call.previous # <<>>
    /\ last_call.held_back

\* C17: a sample with no face emits no BlinkEvent, leaves prev_ear, eye_closed,
\* blink_start and last_blink_end as they were and reports the previous smoothed
\* value, 0 when there is none.
C17_NoFace ==
    (Called("process") /\ last_call.face = <<>>) =>
        /\ last_call.event = <<>>
        /\ detector.prev_ear = last_call.pre.prev_ear
        /\ detector.eye_closed = last_call.pre.eye_closed
        /\ detector.blink_start = last_call.pre.blink_start
        /\ detector.last_blink_end = last_call.pre.last_blink_end
        /\ last_call.metrics.ear =
               IF last_call.pre.prev_ear = <<>> THEN <<0, 1>> ELSE last_call.pre.prev_ear[1]

\* C17 witness: the face is lost while the eye is closed.
C17_Witness ==
    /\ Called("process")
    /\ last_call.face = <<>>
    /\ last_call.pre.eye_closed
    /\ last_call.pre.prev_ear # <<>>
    /\ detector.eye_closed

\* C29: eye_closed is true exactly when blink_start is set, and a sample held back by
\* the debounce check finds and leaves the eye open with no blink in progress.
C29_ClosedIffStarted ==
    /\ detector.eye_closed <=> (detector.blink_start # <<>>)
    /\ HeldBack =>
           /\ ~last_call.pre.eye_closed
           /\ last_call.pre.blink_start = <<>>
           /\ ~detector.eye_closed
           /\ detector.blink_start = <<>>

\* C29 witness: a sample with the eye closed is held back right after a blink.
C29_Witness ==
    /\ HeldBack
    /\ last_call.metrics.ear[1] * 100 < 18 * last_call.metrics.ear[2]
    /\ ~detector.eye_closed
    /\ detector.blink_start = <<>>

---------------------------------------------------------------------------
(* Claims about the application (Spec) *)

\* The cycle just run got a validated blink while the application was not calibrating.
ClassifiedBlink ==
    /\ Called("update_loop")
    /\ last_call.ret
    /\ last_call.event # <<>>
    /\ ~last_call.pre.app.calibrating

blink == last_call.event[1]

\* d < short_blink_max and d >= long_blink_min for the blink's duration d, against the
\* thresholds the calibration manager held when the cycle began
IsShort ==
    blink.duration * last_call.pre.profile.thresholds.short_blink_max[2]
        < last_call.pre.profile.thresholds.short_blink_max[1]

IsLong ==
    blink.duration * last_call.pre.profile.thresholds.long_blink_min[2]
        >= last_call.pre.profile.thresholds.long_blink_min[1]

\* C6: outside calibration a validated blink of duration d registers "." exactly when
\* d < short_blink_max and "-" exactly when d >= long_blink_min; in between no symbol
\* is registered and the decoder is left as the cycle's tick alone leaves it.
C6_Classification ==
    ClassifiedBlink =>
        /\ (last_call.symbol = <<".">>) <=> IsShort
        /\ (last_call.symbol = <<"-">>) <=> IsLong
        /\ (last_call.symbol = <<>>) <=> (~IsShort /\ ~IsLong)
        /\ (last_call.symbol # <<>>) =>
               /\ state.current_letter =
                      last_call.pre.state.current_letter \o last_call.symbol[1]
               /\ state.last_symbol_time = <<last_call.timestamp>>
        /\ (last_call.symbol = <<>>) =>
               /\ last_call.registered = last_call.pre.state
               /\ state = handle_gap(last_call.pre.state, last_call.timestamp)

\* C6 witness: a blink of exactly short_blink_max, ignored, while a letter is buffered.
C6_Witness ==
    /\ ClassifiedBlink
    /\ blink.duration * last_call.pre.profile.thresholds.short_blink_max[2]
           = last_call.pre.profile.thresholds.short_blink_max[1]
    /\ last_call.symbol = <<>>
    /\ state.current_letter # ""


\* The cycle just run read a frame.
Cycle == Called("update_loop") /\ last_call.ret

\* C18: a cycle produces at most one BlinkEvent and registers at most one symbol, and
\* registers it before it evaluates the gap with the same timestamp: the symbol is
\* appended to the buffer the cycle began with, the output is the one it began with,
\* the gap evaluation changes nothing and the cycle ends in BUILDING_SYMBOL.
C18_RegisterBeforeGap ==
    Cycle =>
        /\ app.blink_count =
               last_call.pre.app.blink_count + (IF last_call.event # <<>> THEN 1 ELSE 0)
        /\ (last_call.symbol # <<>>) =>
               /\ last_call.event # <<>>
               /\ last_call.ticked
               /\ last_call.registered.current_letter =
                      last_call.pre.state.current_letter \o last_call.symbol[1]
               /\ last_call.registered.last_symbol_time = <<last_call.timestamp>>
               /\ state = last_call.registered
               /\ state.mode = "building"
               /\ state.output_text = last_call.pre.state.output_text
               /\ last_call.timestamp - state.last_symbol_time[1] = 0

\* C18 witness: a symbol is registered in the cycle whose tick would otherwise have
\* finalized the buffered letter.
C18_Witness ==
    /\ Cycle
    /\ last_call.symbol # <<>>
    /\ last_call.pre.state.mode = "confirming"
    /\ last_call.timestamp - last_call.pre.state.confirmation_start[1] >= 100
    /\ state.mode = "building"

\* C19: a BlinkEvent goes to record_blink when the cycle began calibrating and to
\* classification when it did not, never to both and once only; a cycle that began
\* calibrating registers no symbol, and a cycle without an event does neither.
C19_ConsumedOnce ==
    Cycle =>
        /\ (last_call.event # <<>>) =>
               /\ last_call.recorded <=> last_call.pre.app.calibrating
               /\ last_call.recorded =>
                      /\ profile = record_blink(last_call.pre.profile,
                                                last_call.event[1].duration)
                      /\ Len(profile.samples) <= Len(last_call.pre.profile.samples) + 1
                      /\ last_call.symbol = <<>>
                      /\ last_call.registered = last_call.pre.state
               /\ ~last_call.recorded =>
                      /\ profile = last_call.pre.profile
                      /\ storage = last_call.pre.storage
                      /\ Len(last_call.registered.current_letter)
                             = Len(last_call.pre.state.current_letter)
                                   + (IF last_call.symbol # <<>> THEN 1 ELSE 0)
        /\ (last_call.event = <<>>) =>
               /\ ~last_call.recorded
               /\ last_call.symbol = <<>>
               /\ profile = last_call.pre.profile
               /\ storage = last_call.pre.storage
               /\ last_call.registered = last_call.pre.state
        /\ last_call.pre.app.calibrating =>
               /\ last_call.symbol = <<>>
               /\ last_call.registered = last_call.pre.state

\* C19 witness: the blink that completes calibration is recorded, and its cycle ticks
\* the decoder without registering a symbol.
C19_Witness ==
    /\ Cycle
    /\ last_call.event # <<>>
    /\ last_call.recorded
    /\ ~app.calibrating
    /\ last_call.ticked
    /\ Len(profile.samples) = 8

---------------------------------------------------------------------------
(* Claims about two decoders under different thresholds (SpecTwoRuns) *)

====
